---------------------------- MODULE Spec2Model ----------------------------
(***************************************************************************)
(* Model of maildir_to_mbox.py: a Maildir tree is converted to one mbox    *)
(* archive per folder.                                                     *)
(*                                                                         *)
(* Strings are sequences of one-character strings, so that prefix tests,   *)
(* character replacement, splitting and Python's code-point ordering are   *)
(* computed and not assumed.  A directory is the sequence of its path      *)
(* segments below the source root (the root is <<>>).                      *)
(*                                                                         *)
(* Specifications:                                                         *)
(*   Spec         one run of main() on a bounded source tree               *)
(*   SpecIntr     Spec plus an exception that escapes the message loop     *)
(*   SpecFind     find_maildirs called repeatedly on an unchanged tree     *)
(*   SpecName     mbox_filename applied to bounded relative paths          *)
(*   SpecFallback add_with_fallback applied once to every failure mix      *)
(***************************************************************************)
EXTENDS Naturals, Sequences, FiniteSets

VARIABLES
    \* ---- inputs and source file system (never written by the program)
    srcGiven,     \* main: the source prompt got a non-empty answer
    dstGiven,     \* main: the destination prompt got a non-empty answer
    rootKind,     \* what the source path is on disk: "dir", "file", "missing"
    dirs,         \* the directories below (and including) the source root
    files,        \* folder -> set of <<subdir, file name>> in its cur/ and new/
    \* ---- one run of main() / convert_maildir()
    pc,           \* position in the script
    exitStatus,   \* process exit status once pc = "exit" ("none" before)
    maildirs,     \* convert_maildir: the list find_maildirs returned
    idx,          \* index into maildirs of the folder being converted
    keys,         \* the sorted key list of the current folder
    ki,           \* index into keys of the next key of the for loop
    count, ok, raw, skip,   \* per-folder counters (line 110-111)
    msg_total,    \* run total (line 80)
    archives,     \* archive file name -> sequence of records appended in this run
    openSet,      \* names of the archive files currently open
    ops,          \* operations on the current folder's mbox object, in order
    processed,    \* keys handed to add_with_fallback for the current folder
    summarized,   \* folders whose "Done:" line was written, in order
    raised,       \* an exception is propagating out of the message loop
    \* ---- find_maildirs called on its own
    findResult, findPrev, findCalls,
    \* ---- mbox_filename called on its own
    rel, name,
    \* ---- add_with_fallback called on its own
    fbIn, fbOut, fbBox

fsVars   == <<srcGiven, dstGiven, rootKind, dirs, files>>
runVars  == <<pc, exitStatus, maildirs, idx, keys, ki, count, ok, raw, skip,
              msg_total, archives, openSet, ops, processed, summarized, raised>>
findVars == <<findResult, findPrev, findCalls>>
nameVars == <<rel, name>>
fbVars   == <<fbIn, fbOut, fbBox>>
vars     == <<fsVars, runVars, findVars, nameVars, fbVars>>

---------------------------------------------------------------------------
(* Bounds of the model *)

\* most folders of the source tree that are Maildirs, in Spec
MaxFolders == 2
\* most message files in the whole source tree, in Spec
MaxMsgs == 2
\* longest path segment, in characters, in SpecName
MaxSegLen == 3
\* deepest relative path, in segments, in SpecName
MaxDepth == 2
\* most calls of find_maildirs on one tree, in SpecFind
MaxCalls == 2
\* most records already in the archive before a call, in SpecFallback
MaxPrior == 2

\* line 131: the archive is flushed every 200 processed messages
FlushEvery == 200

---------------------------------------------------------------------------
(* Strings *)

\* code points of the characters the model uses (Python compares str by them)
CharCode(c) ==
    CASE c = "," -> 44  [] c = "." -> 46  [] c = "/" -> 47  [] c = "2" -> 50
      [] c = ":" -> 58  [] c = "I" -> 73  [] c = "S" -> 83  [] c = "_" -> 95
      [] c = "a" -> 97  [] c = "b" -> 98  [] c = "c" -> 99  [] c = "e" -> 101
      [] c = "m" -> 109 [] c = "n" -> 110 [] c = "o" -> 111 [] c = "p" -> 112
      [] c = "r" -> 114 [] c = "t" -> 116 [] c = "u" -> 117 [] c = "w" -> 119

MinOf(a, b) == IF a < b THEN a ELSE b

\* s < t for Python str: the first differing character decides, a proper
\* prefix is smaller
StrLess(s, t) ==
    \E i \in 1..(MinOf(Len(s), Len(t)) + 1) :
        /\ \A j \in 1..(i - 1) : s[j] = t[j]
        /\ \/ i > Len(s) /\ i <= Len(t)
           \/ i <= Len(s) /\ i <= Len(t) /\ CharCode(s[i]) < CharCode(t[i])

\* os.sep on the POSIX build
SEP == "/"

RECURSIVE JoinSegs(_)
\* os.path.join of the segments: "a/b" for <<"a", "b">>, "" for <<>>
JoinSegs(p) ==
    IF p = <<>> THEN <<>>
    ELSE IF Len(p) = 1 THEN p[1]
    ELSE p[1] \o <<SEP>> \o JoinSegs(Tail(p))

RECURSIVE PathStr(_)
\* the path os.walk yields for directory p, without the root prefix all
\* paths of one walk share: "" for the root, "/a/b" for <<"a", "b">>
PathStr(p) ==
    IF p = <<>> THEN <<>> ELSE <<SEP>> \o p[1] \o PathStr(Tail(p))

\* os.path.relpath(maildir_root, src_root) for a directory below the root
relpath(p) == IF p = <<>> THEN <<".">> ELSE JoinSegs(p)

RECURSIVE lstrip_dots(_)
\* lines 42-43: while rel.startswith("."): rel = rel[1:]
lstrip_dots(s) ==
    IF s # <<>> /\ s[1] = "." THEN lstrip_dots(Tail(s)) ELSE s

\* str.replace(os.sep, "_")
replace_sep(s) == [i \in 1..Len(s) |-> IF s[i] = SEP THEN "_" ELSE s[i]]

INBOX  == <<"I", "n", "b", "o", "x">>
DOTMBOX == <<".", "m", "b", "o", "x">>

\* a plausible slip: "if" instead of "while", one dot stripped
mbox_filename_one_dot(p) ==
    LET r == relpath(p)
        s == IF r # <<>> /\ r[1] = "." THEN Tail(r) ELSE r
        n == IF r = <<".">> THEN INBOX
             ELSE IF replace_sep(s) = <<>> THEN INBOX ELSE replace_sep(s)
    IN  n \o DOTMBOX

\* lines 36-46
mbox_filename(p) ==
    LET r == relpath(p)
        n == IF r = <<".">> THEN INBOX
             ELSE LET s == replace_sep(lstrip_dots(r))
                  IN  IF s = <<>> THEN INBOX ELSE s
    IN  n \o DOTMBOX

---------------------------------------------------------------------------
(* The source tree *)

SubCur == <<"c", "u", "r">>
SubNew == <<"n", "e", "w">>
SubTmp == <<"t", "m", "p">>

ROOT == <<>>

\* q lies strictly below p
IsBelow(p, q) == Len(p) < Len(q) /\ SubSeq(q, 1, Len(p)) = p

\* the directories the tree holds when the folders P exist and folder f has
\* the subdirectories sub[f]
TreeOf(P, sub) == P \cup UNION {{Append(f, d) : d \in sub[f]} : f \in P}

\* line 22-23: all three of cur, new and tmp are directories of path
is_maildir(p) == \A d \in {SubCur, SubNew, SubTmp} : Append(p, d) \in dirs

\* line 27: the directories os.walk(root) yields.  onerror is None, so a
\* root that cannot be listed (missing, or not a directory) yields nothing.
os_walk == IF rootKind = "dir" THEN dirs ELSE {}

\* The folders of the walk: the directories that hold (or could hold) cur,
\* new and tmp.  The leaves cur/, new/ and tmp/ hold no directory in the
\* bounded trees, so the walk's visit of them appends nothing to found.
WalkFolders == {d \in os_walk : d = ROOT \/ d[Len(d)] \notin {SubCur, SubNew, SubTmp}}

RECURSIVE Perms(_)
\* the orders in which a set can be listed
Perms(S) ==
    IF S = {} THEN {<<>>}
    ELSE UNION {{<<x>> \o p : p \in Perms(S \ {x})} : x \in S}

\* The orders in which os.walk can yield the folders: top-down, so a
\* directory comes before everything below it; the order of siblings is the
\* order of os.scandir, which is arbitrary.
WalkOrders ==
    {w \in Perms(WalkFolders) :
        \A i, j \in DOMAIN w : IsBelow(w[i], w[j]) => i < j}

\* the place of s[j] in the stably sorted list: after the smaller elements
\* and after the equal elements that come before it
path_place(s, j) ==
    1 + Cardinality({k \in DOMAIN s :
                       \/ StrLess(PathStr(s[k]), PathStr(s[j]))
                       \/ s[k] = s[j] /\ k < j})

\* line 30: sorted(found), the paths compared as Python strings (Python's
\* sort is stable)
sorted_paths(s) ==
    [i \in 1..Len(s) |-> s[CHOOSE j \in DOMAIN s : path_place(s, j) = i]]

\* a variant that reports a root it cannot walk
find_maildirs_raising(walk) ==
    [raised |-> rootKind # "dir",
     value  |-> sorted_paths(SelectSeq(walk, is_maildir))]

\* a plausible slip: the list is returned in walk order
find_maildirs_unsorted(walk) ==
    [raised |-> FALSE, value |-> SelectSeq(walk, is_maildir)]

\* lines 25-30, for the walk order `walk`.  No statement of the function
\* raises: os.walk swallows the listing errors and the rest is list code.
find_maildirs(walk) ==
    [raised |-> FALSE,
     value  |-> sorted_paths(SelectSeq(walk, is_maildir))]

---------------------------------------------------------------------------
(* The three-tier fallback *)

\* What can go wrong while one message is transferred:
\*   parse  md.get_message(key) returns a message         (line 54)
\*   add1   mbox_obj.add(m) appends it                    (line 55)
\*   read   md.get_file(key) opens and fh.read() reads    (lines 60-61)
\*   add2   mboxMessage(raw) is built and appended        (line 63)
\*   add3   the placeholder is built and appended         (line 74)
Failures == [parse : BOOLEAN, add1 : BOOLEAN, read : BOOLEAN,
             add2 : BOOLEAN, add3 : BOOLEAN]

\* mbox.add: the record is in the file when add returns, and the file is
\* as before when add raises
Added(box, md, key, kind) == Append(box, [folder |-> md, key |-> key, kind |-> kind])

\* a plausible slip: a failed append of the parsed message is not noticed
add_with_fallback_add1_unchecked(box, md, key, f) ==
    IF f.parse
    THEN [outcome |-> "OK", raised |-> FALSE,
          box |-> IF f.add1 THEN Added(box, md, key, "parsed") ELSE box]
    ELSE IF f.read /\ f.add2
    THEN [outcome |-> "RAW", raised |-> FALSE, box |-> Added(box, md, key, "raw")]
    ELSE IF f.add3
    THEN [outcome |-> "RAW", raised |-> FALSE,
          box |-> Added(box, md, key, "placeholder")]
    ELSE [outcome |-> "SKIP", raised |-> FALSE, box |-> box]

\* lines 48-77: the outcome, the archive afterwards, and whether an
\* exception leaves the function (every try has an "except Exception")
add_with_fallback(box, md, key, f) ==
    IF f.parse /\ f.add1
    THEN [outcome |-> "OK", raised |-> FALSE, box |-> Added(box, md, key, "parsed")]
    ELSE IF f.read /\ f.add2
    THEN [outcome |-> "RAW", raised |-> FALSE, box |-> Added(box, md, key, "raw")]
    ELSE IF f.add3
    THEN [outcome |-> "RAW", raised |-> FALSE,
          box |-> Added(box, md, key, "placeholder")]
    ELSE [outcome |-> "SKIP", raised |-> FALSE, box |-> box]

---------------------------------------------------------------------------
(* Values of the variables a specification does not use *)

NoFs   == /\ srcGiven = FALSE /\ dstGiven = FALSE
          /\ rootKind = "missing" /\ dirs = {} /\ files = <<>>
NoRun  == /\ pc = "idle" /\ exitStatus = "none" /\ maildirs = <<>> /\ idx = 0
          /\ keys = <<>> /\ ki = 0 /\ count = 0 /\ ok = 0 /\ raw = 0 /\ skip = 0
          /\ msg_total = 0 /\ archives = <<>> /\ openSet = {} /\ ops = <<>>
          /\ processed = <<>> /\ summarized = <<>> /\ raised = FALSE
NoFind == findResult = <<>> /\ findPrev = <<>> /\ findCalls = 0
NoName == rel = <<>> /\ name = <<>>
NoFb   == fbIn = <<>> /\ fbOut = <<>> /\ fbBox = <<>>

---------------------------------------------------------------------------
(* SpecName: mbox_filename on every relative path within the bounds *)

\* the characters of a folder name: the dot of the cPanel convention and a
\* letter
SegAlphabet == {".", "a"}

\* the names a directory can have: not empty, and neither "." nor ".."
Segs == UNION {[1..k -> SegAlphabet] : k \in 1..MaxSegLen} \ {<<".">>, <<".", ".">>}

\* the folders at most MaxDepth below the root, the root among them
RelPaths == UNION {[1..k -> Segs] : k \in 0..MaxDepth}

InitName == /\ rel \in RelPaths /\ name = <<>>
            /\ NoFs /\ NoRun /\ NoFind /\ NoFb

\* name = mbox_filename(root, folder)
CallName == /\ name = <<>>
            /\ name' = <<mbox_filename(rel)>>
            /\ UNCHANGED <<rel, fsVars, runVars, findVars, fbVars>>

NextName == CallName

SpecName == InitName /\ [][NextName]_vars

---------------------------------------------------------------------------
(* SpecFind: find_maildirs on every tree within the bounds *)

SegA   == <<"a">>
SegB   == <<"b">>
SegAdB == <<"a", ".", "b">>

\* root, a, a/b and a.b: as strings "/a" < "/a.b" < "/a/b"
FindFolders == {ROOT, <<SegA>>, <<SegA, SegB>>, <<SegAdB>>}

\* every tree over FindFolders: a folder needs its parent, and each folder
\* holds any of cur, new and tmp
FindTrees ==
    UNION { {TreeOf(P, sub) : sub \in [P -> SUBSET {SubCur, SubNew, SubTmp}]} :
            P \in {Q \in SUBSET FindFolders :
                     /\ ROOT \in Q
                     /\ <<SegA, SegB>> \in Q => <<SegA>> \in Q} }

InitFind == /\ rootKind \in {"dir", "file", "missing"}
            /\ dirs \in (IF rootKind = "dir" THEN FindTrees ELSE {{}})
            /\ srcGiven = TRUE /\ dstGiven = TRUE /\ files = <<>>
            /\ NoRun /\ NoFind /\ NoName /\ NoFb

\* one call of find_maildirs(root); the tree does not change
CallFind == /\ findCalls < MaxCalls
            /\ findResult' \in {<<find_maildirs(w)>> : w \in WalkOrders}
            /\ findPrev' = findResult
            /\ findCalls' = findCalls + 1
            /\ UNCHANGED <<fsVars, runVars, nameVars, fbVars>>

NextFind == CallFind

SpecFind == InitFind /\ [][NextFind]_vars

---------------------------------------------------------------------------
(* SpecFallback: add_with_fallback on every failure mix *)

KeyA == <<"a">>

\* the archive before the call: records of earlier messages
PriorBoxes ==
    {[i \in 1..n |-> [folder |-> 1, key |-> KeyA, kind |-> "parsed"]] :
        n \in 0..MaxPrior}

InitFallback == /\ fbIn \in Failures /\ fbBox \in PriorBoxes /\ fbOut = <<>>
                /\ NoFs /\ NoRun /\ NoFind /\ NoName

\* outcome = add_with_fallback(mbox_obj, md, key)
CallFallback ==
    /\ fbOut = <<>>
    /\ LET r == add_with_fallback(fbBox, 1, KeyA, fbIn)
       IN  /\ fbOut' = <<[outcome |-> r.outcome, raised |-> r.raised,
                          before |-> fbBox]>>
           /\ fbBox' = r.box
    /\ UNCHANGED <<fbIn, fsVars, runVars, findVars, nameVars>>

NextFallback == CallFallback

SpecFallback == InitFallback /\ [][NextFallback]_vars

---------------------------------------------------------------------------
(* Spec: one run of main() *)

DotSent == <<".", "S", "e", "n", "t">>
Sent    == <<"S", "e", "n", "t">>

\* the folders a source tree of Spec can hold as Maildirs: the root, the
\* cPanel folder .Sent and a folder Sent (nested folders are walked in
\* SpecFind and named in SpecName)
RunFolders == {ROOT, <<DotSent>>, <<Sent>>}

\* the tree in which exactly the folders M are Maildirs (a folder nested
\* in a directory that is no Maildir leaves that directory plain)
RunTree(M) ==
    LET P == {ROOT} \cup M \cup {q \in RunFolders : \E m \in M : IsBelow(q, m)}
    IN  TreeOf(P, [f \in P |-> IF f \in M THEN {SubCur, SubNew, SubTmp} ELSE {}])

NameA  == <<"a">>
NameAS == <<"a", ":", "2", ",", "S">>
NameBS == <<"b", ":", "2", ",", "S">>
NameC  == <<"c">>

\* the message files a folder can hold: delivered and unseen in new/, or
\* seen in cur/ with the info suffix ":2,<flags>"
FileUniverse == {<<SubNew, NameA>>, <<SubCur, NameAS>>, <<SubCur, NameBS>>,
                 <<SubNew, NameC>>}

RECURSIVE TotalFiles(_, _)
TotalFiles(lay, M) ==
    IF M = {} THEN 0
    ELSE LET m == CHOOSE x \in M : TRUE
         IN  Cardinality(lay[m]) + TotalFiles(lay, M \ {m})

\* every placing of at most MaxMsgs message files in the folders M
FileLayouts(M) ==
    {lay \in [M -> SUBSET FileUniverse] : TotalFiles(lay, M) <= MaxMsgs}

RECURSIVE split_colon(_)
\* entry.split(":")[0]: the part of a file name before its info suffix
split_colon(s) ==
    IF s = <<>> \/ s[1] = ":" THEN <<>> ELSE <<s[1]>> \o split_colon(Tail(s))

\* lines 93-100: the file names os.listdir finds in cur/ and new/ of folder f
\* (the list is only used for membership tests)
entries(f) == {fl[2] : fl \in files[f]}

\* line 104 and 107, md.keys(): mailbox.Maildir keys a message by the part
\* of its file name before the colon
md_keys(f) == {split_colon(fl[2]) : fl \in files[f]}

\* the place of s[j] in the stably sorted list
str_place(s, j) ==
    1 + Cardinality({k \in DOMAIN s :
                       \/ StrLess(s[k], s[j])
                       \/ s[k] = s[j] /\ k < j})

\* line 108: keys.sort()
sorted_strs(s) ==
    [i \in 1..Len(s) |-> s[CHOOSE j \in DOMAIN s : str_place(s, j) = i]]

\* lines 104-108: the keys of folder f to convert, when md.keys() lists the
\* keys in the order `listing`
select_keys(f, listing) ==
    LET InEntries(k) == k \in entries(f)
        hit == SelectSeq(listing, InEntries)
    IN  sorted_strs(IF hit = <<>> THEN listing ELSE hit)

\* a plausible slip: a skipped message is not tallied
tally_skip_dropped(outcome, c) ==
    [count |-> c.count + 1,
     ok    |-> IF outcome = "OK" THEN c.ok + 1 ELSE c.ok,
     raw   |-> IF outcome = "RAW" THEN c.raw + 1 ELSE c.raw,
     skip  |-> c.skip]

\* lines 116-123
tally(outcome, c) ==
    [count |-> c.count + 1,
     ok    |-> IF outcome = "OK" THEN c.ok + 1 ELSE c.ok,
     raw   |-> IF outcome = "RAW" THEN c.raw + 1 ELSE c.raw,
     skip  |-> IF outcome \notin {"OK", "RAW"} THEN c.skip + 1 ELSE c.skip]

\* a plausible slip: flush and close in one try, a failed flush skips close
after_flush_one_try(failed) == IF failed THEN "closed" ELSE "close"

\* lines 137-141: "except Exception: pass" after the flush, then the close
after_flush(failed) == "close"

\* the archive file of the folder being converted (line 88)
OutName == mbox_filename(maildirs[idx])

Init ==
    /\ srcGiven \in BOOLEAN /\ dstGiven \in BOOLEAN
    /\ rootKind \in {"dir", "file", "missing"}
    /\ IF srcGiven /\ dstGiven /\ rootKind = "dir"
       THEN \E M \in {Q \in SUBSET RunFolders : Cardinality(Q) <= MaxFolders} :
               /\ dirs = RunTree(M)
               /\ files \in FileLayouts(M)
       ELSE \* main leaves before it looks at the tree
            /\ dirs = (IF rootKind = "dir" THEN {ROOT} ELSE {})
            /\ files = <<>>
    /\ pc = "main" /\ exitStatus = "none" /\ maildirs = <<>> /\ idx = 0
    /\ keys = <<>> /\ ki = 0 /\ count = 0 /\ ok = 0 /\ raw = 0 /\ skip = 0
    /\ msg_total = 0 /\ archives = <<>> /\ openSet = {} /\ ops = <<>>
    /\ processed = <<>> /\ summarized = <<>> /\ raised = FALSE
    /\ NoFind /\ NoName /\ NoFb

\* lines 151-171: the prompts and their checks (the verbosity prompt only
\* selects which progress lines are written)
Main ==
    /\ pc = "main"
    /\ IF ~srcGiven \/ rootKind # "dir" \/ ~dstGiven
       THEN pc' = "exit" /\ exitStatus' = "1"
       ELSE pc' = "convert" /\ UNCHANGED exitStatus
    /\ UNCHANGED <<fsVars, maildirs, idx, keys, ki, count, ok, raw, skip, msg_total,
                   archives, openSet, ops, processed, summarized, raised,
                   findVars, nameVars, fbVars>>

\* lines 80-86, and lines 173-174 for the early "return 0"
FindStep ==
    /\ pc = "convert"
    /\ \E r \in {find_maildirs(w) : w \in WalkOrders} :
         /\ maildirs' = r.value
         /\ IF r.raised THEN pc' = "exit" /\ exitStatus' = "traceback" /\ idx' = idx
            ELSE IF r.value = <<>> THEN pc' = "exit" /\ exitStatus' = "2" /\ idx' = idx
            ELSE pc' = "open" /\ idx' = 1 /\ UNCHANGED exitStatus
    /\ UNCHANGED <<fsVars, keys, ki, count, ok, raw, skip, msg_total,
                   archives, openSet, ops, processed, summarized, raised,
                   findVars, nameVars, fbVars>>

\* lines 87-112: the next folder; its keys; its archive is opened (and
\* created when it is not there)
OpenFolder ==
    /\ pc = "open"
    /\ keys' \in {select_keys(maildirs[idx], listing) :
                    listing \in Perms(md_keys(maildirs[idx]))}
    /\ ki' = 1 /\ count' = 0 /\ ok' = 0 /\ raw' = 0 /\ skip' = 0
    /\ archives' = [n \in DOMAIN archives \cup {OutName} |->
                      IF n \in DOMAIN archives THEN archives[n] ELSE <<>>]
    /\ openSet' = openSet \cup {OutName}
    /\ ops' = <<"open">>
    /\ processed' = <<>>
    /\ pc' = "loop"
    /\ UNCHANGED <<fsVars, exitStatus, maildirs, idx, msg_total, summarized, raised,
                   findVars, nameVars, fbVars>>

\* lines 114-135: one turn of the for loop
ProcessMessage ==
    /\ pc = "loop" /\ ~raised /\ ki <= Len(keys)
    /\ \E r \in {add_with_fallback(archives[OutName], idx, keys[ki], f) :
                   f \in Failures} :
         LET t == tally(r.outcome, [count |-> count, ok |-> ok, raw |-> raw,
                                    skip |-> skip])
         IN  /\ archives' = [archives EXCEPT ![OutName] = r.box]
             /\ processed' = Append(processed, keys[ki])
             /\ IF r.raised
                THEN /\ raised' = TRUE
                     /\ ops' = Append(ops, "msg")
                     /\ UNCHANGED <<count, ok, raw, skip, msg_total, ki>>
                ELSE /\ raised' = FALSE
                     /\ count' = t.count /\ ok' = t.ok /\ raw' = t.raw /\ skip' = t.skip
                     /\ msg_total' = msg_total + 1
                     /\ ki' = ki + 1
                     /\ ops' = IF t.count % FlushEvery = 0
                               THEN ops \o <<"msg", "flush">>
                               ELSE Append(ops, "msg")
    /\ UNCHANGED <<fsVars, pc, exitStatus, maildirs, idx, keys, openSet, summarized,
                   findVars, nameVars, fbVars>>

\* lines 113-136: an exception the loop body does not catch (an interrupt
\* inside add_with_fallback, a progress line that cannot be written)
\* leaves the try block
LoopRaises ==
    /\ pc = "loop" /\ ~raised
    /\ raised' = TRUE
    /\ UNCHANGED <<fsVars, pc, exitStatus, maildirs, idx, keys, ki, count, ok, raw,
                   skip, msg_total, archives, openSet, ops, processed, summarized,
                   findVars, nameVars, fbVars>>

\* lines 136-140: finally, the flush; its exception is dropped
FinalFlush ==
    /\ pc = "loop" /\ (raised \/ ki > Len(keys))
    /\ ops' = Append(ops, "flush")
    /\ pc' \in {after_flush(failed) : failed \in BOOLEAN}
    /\ UNCHANGED <<fsVars, exitStatus, maildirs, idx, keys, ki, count, ok, raw, skip,
                   msg_total, archives, openSet, processed, summarized, raised,
                   findVars, nameVars, fbVars>>

\* lines 141-144: the close; its exception is dropped.  mailbox closes the
\* file in a finally of its own, so the file is closed also when close
\* raises.  An exception that left the loop goes on after the finally.
CloseBox ==
    /\ pc = "close"
    /\ ops' = Append(ops, "close")
    /\ openSet' \in {openSet \ {OutName} : failed \in BOOLEAN}
    /\ pc' = "closed"
    /\ UNCHANGED <<fsVars, exitStatus, maildirs, idx, keys, ki, count, ok, raw, skip,
                   msg_total, archives, processed, summarized, raised,
                   findVars, nameVars, fbVars>>

\* line 146, and the next turn of the loop over the folders; an exception
\* that left the message loop ends the run with a traceback instead
Summary ==
    /\ pc = "closed"
    /\ IF raised
       THEN /\ pc' = "exit" /\ exitStatus' = "traceback"
            /\ UNCHANGED <<summarized, idx>>
       ELSE /\ summarized' = Append(summarized, maildirs[idx])
            /\ IF idx < Len(maildirs)
               THEN pc' = "open" /\ idx' = idx + 1
               ELSE pc' = "finish" /\ idx' = idx
            /\ UNCHANGED exitStatus
    /\ UNCHANGED <<fsVars, maildirs, keys, ki, count, ok, raw, skip,
                   msg_total, archives, openSet, ops, processed, raised,
                   findVars, nameVars, fbVars>>

\* lines 148-149 and 172-174: "return msg_total", and the exit status
Finish ==
    /\ pc = "finish"
    /\ pc' = "exit"
    /\ exitStatus' = IF msg_total = 0 THEN "2" ELSE "0"
    /\ UNCHANGED <<fsVars, maildirs, idx, keys, ki, count, ok, raw, skip,
                   msg_total, archives, openSet, ops, processed, summarized, raised,
                   findVars, nameVars, fbVars>>

Next == \/ Main \/ FindStep \/ OpenFolder \/ ProcessMessage
        \/ FinalFlush \/ CloseBox \/ Summary \/ Finish

NextIntr == Next \/ LoopRaises

Spec == Init /\ [][Next]_vars

SpecIntr == Init /\ [][NextIntr]_vars

---------------------------------------------------------------------------
(* The claims *)

\* the keys of the records of an archive, in file order
RecordKeys(box) == [i \in 1..Len(box) |-> box[i].key]

\* C1 (as claimed, under Spec): when a folder's summary is due, every
\* message file in its cur/ and new/ has been handed to add_with_fallback
\* exactly once.  Stated for the folders whose files have pairwise different
\* keys, so that each file has a key of its own.
C1_EveryFileOnce ==
    (pc = "closed" /\ ~raised) =>
        LET fs == files[maildirs[idx]]
        IN  (\A a, b \in fs : a # b => split_colon(a[2]) # split_colon(b[2]))
            => \A fl \in fs :
                 Cardinality({i \in DOMAIN processed :
                                processed[i] = split_colon(fl[2])}) = 1

\* no record was appended to any archive in the run
NothingWritten == \A n \in DOMAIN archives : archives[n] = <<>>

\* C2 (as claimed, under Spec): a missing source or destination answer ends
\* the run with status 1 before any conversion work; with both given and a
\* source directory, the status is 2 when no folder qualified or no record
\* was written (a skipped message is no record), and 0 otherwise.
C2_ExitStatus ==
    pc = "exit" =>
        IF ~srcGiven \/ ~dstGiven
        THEN exitStatus = "1" /\ maildirs = <<>> /\ archives = <<>>
        ELSE rootKind = "dir" =>
               exitStatus = (IF maildirs = <<>> \/ NothingWritten THEN "2" ELSE "0")

\* C3 (as claimed, under Spec): two different folders of one source root
\* never get the same archive name, and no archive holds records of two
\* different folders.
C3_OwnArchive ==
    /\ \A i, j \in DOMAIN maildirs :
         i # j => mbox_filename(maildirs[i]) # mbox_filename(maildirs[j])
    /\ \A n \in DOMAIN archives :
         \A a, b \in DOMAIN archives[n] :
            archives[n][a].folder = archives[n][b].folder

RECURSIVE DropDotSegs(_)
\* the relative path without its leading segments that begin with a dot
DropDotSegs(p) ==
    IF p # <<>> /\ p[1][1] = "." THEN DropDotSegs(Tail(p)) ELSE p

RECURSIVE UndotSegs(_)
\* the relative path with the dots taken off the front of each of its
\* leading segments that begin with a dot
UndotSegs(p) ==
    IF p # <<>> /\ p[1][1] = "."
    THEN <<lstrip_dots(p[1])>> \o UndotSegs(Tail(p))
    ELSE p

\* the file name for a stripped relative path: flattened, "Inbox" when
\* nothing remains, ".mbox" appended
Flattened(p) ==
    LET s == replace_sep(JoinSegs(p))
    IN  (IF s = <<>> THEN INBOX ELSE s) \o DOTMBOX

\* the result is not empty and holds no path separator
SafeName(n) == n # <<>> /\ \A i \in DOMAIN n : n[i] # SEP

\* C4 (as claimed, under SpecName): the root gives Inbox.mbox; any other
\* folder gives the relative path with its leading dot-segments stripped
\* (the segments dropped, or their dots taken off), flattened, with the
\* Inbox fallback and ".mbox"; the result is non-empty, with no separator.
C4_StripsDotSegments ==
    name # <<>> =>
        /\ SafeName(name[1])
        /\ rel = ROOT => name[1] = INBOX \o DOTMBOX
        /\ rel # ROOT =>
             name[1] \in {Flattened(DropDotSegs(rel)), Flattened(UndotSegs(rel))}

\* C4 (amended, under SpecName): the root gives Inbox.mbox; any other
\* folder gives the relative path string with every dot at its very front
\* removed (the dots before the first other character, and nothing else: no
\* segment is dropped and later segments keep their dots), each separator
\* replaced by "_", "Inbox" when nothing remains, and ".mbox" appended; the
\* result is non-empty, with no separator.
C4_StripsLeadingDots ==
    name # <<>> =>
        LET n == name[1]
            r == JoinSegs(rel)
        IN  /\ SafeName(n)
            /\ rel = ROOT => n = INBOX \o DOTMBOX
            /\ rel # ROOT =>
                 \E d \in 0..Len(r) :
                    /\ \A i \in 1..d : r[i] = "."
                    /\ d < Len(r) => r[d + 1] # "."
                    /\ LET rest == SubSeq(r, d + 1, Len(r))
                           stem == [i \in 1..Len(rest) |->
                                      IF rest[i] = SEP THEN "_" ELSE rest[i]]
                       IN  n = (IF rest = <<>> THEN INBOX ELSE stem) \o DOTMBOX

\* C4 witness: the name of a nested folder whose first segment begins with
\* two dots and whose second segment begins with a dot has been computed
C4_Witness ==
    /\ name # <<>> /\ Len(rel) = 2
    /\ Len(rel[1]) = 3 /\ rel[1][1] = "." /\ rel[1][2] = "." /\ rel[1][3] # "."
    /\ rel[2][1] = "."

\* the directories of the tree that hold all three of cur, new and tmp
Qualifying ==
    {d \in dirs : /\ Append(d, SubCur) \in dirs
                  /\ Append(d, SubNew) \in dirs
                  /\ Append(d, SubTmp) \in dirs}

\* C5 (under SpecFind): find_maildirs returns exactly the directories of
\* the tree that hold cur, new and tmp, in strictly ascending string order
\* of their paths (so without duplicates), and a second call on the
\* unchanged tree returns the same list.
C5_FindExactSorted ==
    findResult # <<>> =>
        LET v == findResult[1].value
        IN  /\ {v[i] : i \in DOMAIN v} = Qualifying
            /\ \A i, j \in DOMAIN v :
                 i < j => StrLess(PathStr(v[i]), PathStr(v[j]))
            /\ findPrev # <<>> => findPrev = findResult

\* C5 witness: find_maildirs was called twice on a tree in which a.b and
\* a/b both qualify (string order and segment order differ there) and some
\* directory holds cur and new but no tmp
C5_Witness ==
    /\ findPrev # <<>> /\ findResult # <<>>
    /\ {<<SegAdB>>, <<SegA, SegB>>} \subseteq Qualifying
    /\ \E d \in dirs : /\ Append(d, SubCur) \in dirs
                       /\ Append(d, SubNew) \in dirs
                       /\ Append(d, SubTmp) \notin dirs

\* C6 (as claimed, under SpecFind): when the root is missing or is not a
\* directory, find_maildirs fails with an error and returns nothing.
C6_RaisesNotFound ==
    (findResult # <<>> /\ rootKind # "dir") => findResult[1].raised

\* C6 (amended, under SpecFind): when the root is missing or is not a
\* directory, find_maildirs raises nothing and returns the empty list.
C6_ReturnsEmpty ==
    (findResult # <<>> /\ rootKind # "dir") =>
        ~findResult[1].raised /\ findResult[1].value = <<>>

\* C6 witness: find_maildirs was called on a root that is a plain file
C6_Witness == findResult # <<>> /\ rootKind = "file"

\* the counters add up after every message, count is the number of keys
\* handed over so far and, when the loop is through, the number of keys
\* selected
C7_Counts ==
    /\ count = ok + raw + skip
    /\ pc \in {"loop", "close", "closed"} =>
         count = Len(processed) /\ count = ki - 1
    /\ pc \in {"close", "closed"} => count = Len(keys)

\* the run is never stuck and never aborted: a step can be taken until the
\* process has exited, no traceback ends it, and it exits only with the
\* summary of every folder found written, in the order found
C7_RunsThrough ==
    /\ pc # "exit" => ENABLED Next
    /\ exitStatus # "traceback"
    /\ (pc = "exit" /\ maildirs # <<>>) => summarized = maildirs

\* the place of a position in the script
PcRank(p) ==
    CASE p = "main" -> 0 [] p = "convert" -> 1 [] p = "open" -> 2
      [] p = "loop" -> 3 [] p = "close" -> 4 [] p = "closed" -> 5
      [] p = "finish" -> 6 [] p = "exit" -> 7

\* a step goes forward: one more summary written, or else a later position
\* in the script, or else the next key of the loop (summaries, positions
\* and keys are finitely many, so the run ends)
C7_Forward ==
    \/ Len(summarized') > Len(summarized)
    \/ /\ summarized' = summarized
       /\ \/ PcRank(pc') > PcRank(pc)
          \/ pc' = pc /\ pc = "loop" /\ ki' = ki + 1 /\ ki <= Len(keys)

\* C7 (under Spec): whatever parse, read and write failures hit the
\* messages, count = ok + raw + skip after each message and count equals
\* the number of keys selected at the folder's summary; no message failure
\* aborts the folder or the run: every step goes forward, a next step can
\* always be taken until the process exits, and it exits with the summary
\* of every folder found written.
C7_CountsAndCompletion ==
    /\ [](C7_Counts /\ C7_RunsThrough)
    /\ [][C7_Forward]_vars

\* C7 witness: a two-folder run ended with both summaries written although
\* the last folder's only message was skipped
C7_Witness ==
    /\ pc = "exit" /\ Len(summarized) = 2
    /\ msg_total = 2 /\ count = 1 /\ skip = 1

\* C8 (under SpecFallback): the outcome is OK exactly when the parsed copy
\* was appended, RAW exactly when it was not and the raw copy or else the
\* placeholder was appended, SKIP exactly when all three appends failed;
\* OK and RAW add exactly one record, that of the first attempt that
\* succeeded, SKIP leaves the archive as it was, and nothing is raised.
C8_FallbackOutcome ==
    fbOut # <<>> =>
        LET o == fbOut[1]
            parsedOk == fbIn.parse /\ fbIn.add1
            rawOk == fbIn.read /\ fbIn.add2
        IN  /\ ~o.raised
            /\ o.outcome = "OK" <=> parsedOk
            /\ o.outcome = "RAW" <=> (~parsedOk /\ (rawOk \/ fbIn.add3))
            /\ o.outcome = "SKIP" <=> (~parsedOk /\ ~rawOk /\ ~fbIn.add3)
            /\ o.outcome \in {"OK", "RAW"} =>
                 /\ Len(fbBox) = Len(o.before) + 1
                 /\ SubSeq(fbBox, 1, Len(o.before)) = o.before
                 /\ fbBox[Len(fbBox)].kind =
                      (IF parsedOk THEN "parsed"
                       ELSE IF rawOk THEN "raw" ELSE "placeholder")
            /\ o.outcome = "SKIP" => fbBox = o.before

\* C8 witness: the message parsed but its append failed, the raw read
\* failed too, and the placeholder was appended to a non-empty archive
C8_Witness ==
    /\ fbOut # <<>> /\ fbOut[1].outcome = "RAW" /\ fbOut[1].before # <<>>
    /\ fbIn.parse /\ ~fbIn.add1 /\ ~fbIn.read /\ fbIn.add3

\* the operations on one folder's archive: opened once, then messages and
\* flushes, and last a flush followed by the close
OpenedFlushedClosed(o) ==
    /\ Len(o) >= 3 /\ o[1] = "open"
    /\ o[Len(o) - 1] = "flush" /\ o[Len(o)] = "close"
    /\ \A i \in 2..(Len(o) - 1) : o[i] \notin {"open", "close"}

\* C9 (under SpecIntr): at most one archive is open at any time; when a
\* folder is left (for its summary, for the next folder's open, for the end
\* of the run, or by an exception out of the message loop) its archive has
\* been flushed and then closed after its last message and no archive is
\* open; and a run that no exception left ends with every folder processed,
\* whether or not a flush or a close failed.
C9_FlushThenClose ==
    /\ Cardinality(openSet) <= 1
    /\ (pc \in {"open", "closed", "finish", "exit"}) => openSet = {}
    /\ (pc \in {"closed", "finish"} \/ (pc = "open" /\ idx > 1)
          \/ (pc = "exit" /\ maildirs # <<>>))
         => OpenedFlushedClosed(ops)
    /\ (pc = "exit" /\ ~raised /\ maildirs # <<>>) => summarized = maildirs

\* C9 witness: in the second folder an exception left the message loop
\* after a message was processed, and the run has ended
C9_Witness ==
    /\ pc = "exit" /\ raised /\ idx = 2
    /\ \E i \in DOMAIN ops : ops[i] = "msg"

\* C10 (as claimed, under Spec): the folders are summarized in strictly
\* ascending path order, the keys of a folder are processed in strictly
\* ascending order, and the records appended to an archive in the run are
\* in ascending key order.
C10_AscendingOrder ==
    /\ \A i, j \in DOMAIN summarized :
         i < j => StrLess(PathStr(summarized[i]), PathStr(summarized[j]))
    /\ \A i, j \in DOMAIN processed : i < j => StrLess(processed[i], processed[j])
    /\ \A n \in DOMAIN archives :
         LET k == RecordKeys(archives[n])
         IN  \A i, j \in DOMAIN k : i < j => (k[i] = k[j] \/ StrLess(k[i], k[j]))

===========================================================================
